---- MODULE Spec2Model ----
(***************************************************************************)
(* Model of the Ethereal build scripts (buildscripts/app.py, lib.py,       *)
(* genpc.py): the descriptor parsers, the flag resolvers, the package-     *)
(* metadata emitter and the install-time symlink builders.                 *)
(*                                                                         *)
(* Python strings are sequences of one-character strings, so that          *)
(* startswith, replace, split and strip are computed the way Python        *)
(* computes them.  A filesystem path is looked up by its sequence of       *)
(* non-empty components.                                                   *)
(***************************************************************************)
EXTENDS Integers, Sequences, FiniteSets, TLC

\* ------------------------------------------------------------------------
\* Bounds of the model
\* ------------------------------------------------------------------------
\* Longest descriptor file, in lines.
MaxLines == 3
\* Number of consecutive runs of `app.py --create-symlinks`.
MaxRuns == 2

\* ------------------------------------------------------------------------
\* Python str methods
\* ------------------------------------------------------------------------
\* str.startswith
StartsWith(s, p) == Len(s) >= Len(p) /\ SubSeq(s, 1, Len(p)) = p

\* str.replace(old, new), old non-empty: every non-overlapping occurrence,
\* scanning from the left.
RECURSIVE Replace(_, _, _)
Replace(s, old, new) ==
    IF Len(s) < Len(old) THEN s
    ELSE IF StartsWith(s, old)
         THEN new \o Replace(SubSeq(s, Len(old) + 1, Len(s)), old, new)
         ELSE <<Head(s)>> \o Replace(Tail(s), old, new)

\* Index of the first occurrence of the character c in s, 0 when absent.
RECURSIVE Find(_, _, _)
Find(s, c, i) ==
    IF i > Len(s) THEN 0
    ELSE IF s[i] = c THEN i ELSE Find(s, c, i + 1)

Contains(s, c) == Find(s, c, 1) # 0

\* str.split(c) for a one-character separator: a split at every occurrence;
\* "".split(c) is [""].
RECURSIVE Split(_, _)
Split(s, c) ==
    LET i == Find(s, c, 1)
    IN  IF i = 0 THEN <<s>>
        ELSE <<SubSeq(s, 1, i - 1)>> \o Split(SubSeq(s, i + 1, Len(s)), c)

\* str.strip(): whitespace removed at both ends.
RECURSIVE LStrip(_)
LStrip(s) == IF s # <<>> /\ Head(s) = " " THEN LStrip(Tail(s)) ELSE s

RECURSIVE RStrip(_)
RStrip(s) ==
    IF s # <<>> /\ s[Len(s)] = " " THEN RStrip(SubSeq(s, 1, Len(s) - 1)) ELSE s

Strip(s) == LStrip(RStrip(s))

Digits == {"0", "1", "2", "3", "4", "5", "6", "7", "8", "9"}

\* str.isdigit(): non-empty and every character a digit.
IsDigit(s) == s # <<>> /\ \A i \in 1..Len(s) : s[i] \in Digits

\* [f(x) for x in xs]
RECURSIVE StripAll(_)
StripAll(ls) == IF ls = <<>> THEN <<>> ELSE <<Strip(Head(ls))>> \o StripAll(Tail(ls))

\* The first line of lines that starts with key, 0 when there is none
\* (`for line in lines: if line.startswith(key)`).
RECURSIVE FirstStartingWith(_, _, _)
FirstStartingWith(lines, key, i) ==
    IF i > Len(lines) THEN 0
    ELSE IF StartsWith(lines[i], key) THEN i
         ELSE FirstStartingWith(lines, key, i + 1)

\* ------------------------------------------------------------------------
\* Text of the descriptor files
\* ------------------------------------------------------------------------
kNAME == <<"N", "A", "M", "E">>
kINSTALL_DIR == <<"I", "N", "S", "T", "A", "L", "L", "_", "D", "I", "R">>
kDEPENDS == <<"D", "E", "P", "E", "N", "D", "S">>
kDEPENDS_ON == kDEPENDS \o <<"_", "O", "N">>
kDEPENDS_ON_PRIV == kDEPENDS_ON \o <<"_", "P", "R", "I", "V">>
kADDITIONAL_TARGETS ==
    <<"A", "D", "D", "I", "T", "I", "O", "N", "A", "L", "_",
      "T", "A", "R", "G", "E", "T", "S">>
kSYMLINKS == <<"S", "Y", "M", "L", "I", "N", "K", "S">>
kCFLAGS == <<"C", "F", "L", "A", "G", "S">>
kLDFLAGS == <<"L", "D", "F", "L", "A", "G", "S">>
kVERSION == <<"V", "E", "R", "S", "I", "O", "N">>
kDESCRIPTION == <<"D", "E", "S", "C", "R", "I", "P", "T", "I", "O", "N">>
kNO_SHARED == <<"N", "O", "_", "S", "H", "A", "R", "E", "D">>

sLib == <<"l", "i", "b">>
sUsrBin == <<"/", "u", "s", "r", "/", "b", "i", "n", "/">>
sDefaultVersion == <<"1", ".", "0", ".", "0">>

\* `KEY = value` as it is written in a descriptor file.
Assign(key, value) == key \o <<" ", "=", " ">> \o value

\* A Python result: either a value or the exception that was raised.
Ok(v) == [exc |-> "None", val |-> v]
Raise(e) == [exc |-> e, val |-> <<>>]

\* ------------------------------------------------------------------------
\* app.py: the app descriptor parser
\* ------------------------------------------------------------------------
\* get_line_or_replace(lines, key, rep_value, error)
get_line_or_replace(lines, key, rep_value, error) ==
    LET i == FirstStartingWith(lines, key, 1)
    IN  IF i # 0
        THEN LET a == Split(Replace(lines[i], <<" ", "=", " ">>, <<"=">>), "=")
             IN  IF Len(a) < 2 THEN Raise("IndexError") ELSE Ok(a[2])
        ELSE IF error THEN Raise("MissingRequiredField") ELSE Ok(rep_value)

\* `v.replace(" ", "").split(",")` of a non-empty field, [] of an empty one.
CommaList(v) == IF v # <<>> THEN Split(Replace(v, <<" ">>, <<>>), ",") ELSE <<>>

\* install_dir with the trailing "/" process_file adds when it is missing.
WithSlash(dir) == IF dir = <<>> \/ dir[Len(dir)] # "/" THEN dir \o <<"/">> ELSE dir

\* os.path.join(a, b): an absolute b discards a.
PathJoin(a, b) ==
    IF StartsWith(b, <<"/">>) THEN b
    ELSE IF a = <<>> \/ a[Len(a)] = "/" THEN a \o b
         ELSE a \o <<"/">> \o b

\* ------------------------------------------------------------------------
\* The filesystem: a function from the paths that exist (sequences of
\* components) to [kind, target, data]; the root directory always exists.
\* ------------------------------------------------------------------------
RECURSIVE DropEmpty(_)
DropEmpty(cs) ==
    IF cs = <<>> THEN <<>>
    ELSE IF Head(cs) = <<>> THEN DropEmpty(Tail(cs))
         ELSE <<Head(cs)>> \o DropEmpty(Tail(cs))

\* The components of a path string ("/usr//bin/" -> usr, bin).
Components(p) == DropEmpty(Split(p, "/"))

Dir == [kind |-> "dir", target |-> <<>>, data |-> <<>>]
Link(t) == [kind |-> "link", target |-> t, data |-> <<>>]
File(d) == [kind |-> "file", target |-> <<>>, data |-> d]

\* Symbolic links followed during one path resolution before ELOOP.
MaxFollow == 3

\* Path resolution, following symbolic links: cur is the resolved directory,
\* rest the components still to walk.  The result is the resolved path, or
\* the errno of the failure and the path it failed at (last: at the final
\* component).
RECURSIVE Walk(_, _, _, _)
Walk(f, cur, rest, fuel) ==
    IF rest = <<>> THEN [st |-> "ok", path |-> cur]
    ELSE LET next == Append(cur, Head(rest))
         IN  IF next \notin DOMAIN f
             THEN [st |-> "ENOENT", path |-> next, last |-> Tail(rest) = <<>>]
             ELSE IF f[next].kind = "link"
                  THEN IF fuel = 0 THEN [st |-> "ELOOP", path |-> next]
                       ELSE Walk(f, <<>>, f[next].target \o Tail(rest), fuel - 1)
             ELSE IF f[next].kind = "file" /\ Tail(rest) # <<>>
                  THEN [st |-> "ENOTDIR", path |-> next]
             ELSE Walk(f, next, Tail(rest), fuel)

\* os.path.exists(p): p resolves, symbolic links followed; "" does not exist.
Exists(f, p) == p # <<>> /\ Walk(f, <<>>, Components(p), MaxFollow).st = "ok"

IsDirAt(f, c) == c = <<>> \/ (c \in DOMAIN f /\ f[c].kind = "dir")

\* Index of the last "/" of p, 0 when there is none.
RECURSIVE RFind(_, _)
RFind(p, i) == IF i = 0 THEN 0 ELSE IF p[i] = "/" THEN i ELSE RFind(p, i - 1)

RECURSIVE RStripSlash(_)
RStripSlash(s) ==
    IF s # <<>> /\ s[Len(s)] = "/" THEN RStripSlash(SubSeq(s, 1, Len(s) - 1)) ELSE s

\* os.path.dirname(p)
Dirname(p) ==
    LET head == SubSeq(p, 1, RFind(p, Len(p)))
    IN  IF RStripSlash(head) = <<>> THEN head ELSE RStripSlash(head)

\* Where a new entry named by the path string p would be made: the resolved
\* parent directory and the entry's path, or the error of the attempt.
NewEntry(f, p) ==
    LET cs == Components(p)
    IN  IF cs = <<>> THEN IF p = <<>> THEN [st |-> "ENOENT"] ELSE [st |-> "EEXIST"]
        ELSE LET par == Walk(f, <<>>, SubSeq(cs, 1, Len(cs) - 1), MaxFollow)
             IN  IF par.st # "ok" THEN [st |-> par.st]
                 ELSE IF ~IsDirAt(f, par.path) THEN [st |-> "ENOTDIR"]
                 ELSE IF Append(par.path, cs[Len(cs)]) \in DOMAIN f
                      THEN [st |-> "EEXIST"]
                 ELSE [st |-> "ok", path |-> Append(par.path, cs[Len(cs)])]

\* The Python exception of an errno.
ExcOf(st) ==
    CASE st = "EEXIST" -> "FileExistsError"
      [] st = "ENOENT" -> "FileNotFoundError"
      [] st = "ENOTDIR" -> "NotADirectoryError"
      [] OTHER -> "OSError"

Put(f, path, entry) ==
    [q \in DOMAIN f \cup {path} |-> IF q = path THEN entry ELSE f[q]]

\* os.mkdir(p) and os.symlink(target, p): the exception raised ("None" when
\* none) and the filesystem afterwards.
os_mkdir(f, p) ==
    LET e == NewEntry(f, p)
    IN  IF e.st = "ok" THEN [exc |-> "None", fs |-> Put(f, e.path, Dir)]
        ELSE [exc |-> ExcOf(e.st), fs |-> f]

os_symlink(f, target, p) ==
    LET e == NewEntry(f, p)
    IN  IF e.st = "ok"
        THEN [exc |-> "None", fs |-> Put(f, e.path, Link(Components(target)))]
        ELSE [exc |-> ExcOf(e.st), fs |-> f]

\* os.environ["SYSROOT"] and os.environ["PREFIX"] of every run.
SYSROOT == <<"/", "s">>
PREFIX == <<"/", "p">>

\* process_file(fn), on the lines of the file and the filesystem.
process_file(rawlines, f) ==
    LET lines == StripAll(rawlines)
        name == get_line_or_replace(lines, kNAME, <<>>, TRUE)
        dir == get_line_or_replace(lines, kINSTALL_DIR, sUsrBin, FALSE)
        depends == get_line_or_replace(lines, kDEPENDS, <<>>, FALSE)
        targets == get_line_or_replace(lines, kADDITIONAL_TARGETS, <<>>, FALSE)
        symlink == get_line_or_replace(lines, kSYMLINKS, <<>>, FALSE)
        cflags == get_line_or_replace(lines, kCFLAGS, <<>>, FALSE)
        ldflags == get_line_or_replace(lines, kLDFLAGS, <<>>, FALSE)
    IN  IF name.exc # "None" THEN Raise(name.exc)
        ELSE IF dir.exc # "None" THEN Raise(dir.exc)
        ELSE IF ~Exists(f, PathJoin(SYSROOT, WithSlash(dir.val)))
             THEN Raise("PathNotFound")
        ELSE IF depends.exc # "None" THEN Raise(depends.exc)
        ELSE IF targets.exc # "None" THEN Raise(targets.exc)
        ELSE IF symlink.exc # "None" THEN Raise(symlink.exc)
        ELSE IF cflags.exc # "None" THEN Raise(cflags.exc)
        ELSE IF ldflags.exc # "None" THEN Raise(ldflags.exc)
        ELSE Ok([name |-> name.val,
                 depends |-> CommaList(depends.val),
                 install_dir |-> WithSlash(dir.val),
                 symlinks |-> CommaList(symlink.val),
                 additional_targets |-> targets.val,
                 cflags |-> cflags.val,
                 ldflags |-> ldflags.val])

\* ------------------------------------------------------------------------
\* lib.py: the library descriptor parser
\* ------------------------------------------------------------------------
\* preprocess(line, no_spaces, quotes)
preprocess(line, no_spaces, quotes) ==
    LET a == Split(Replace(line, <<" ", "=", " ">>, <<"=">>), "=")
    IN  IF Len(a) < 2 THEN Raise("IndexError")
        ELSE IF no_spaces /\ Contains(a[2], " ") THEN Raise("InvalidValue")
        ELSE IF ~quotes /\ Contains(a[2], "\"") THEN Raise("InvalidValue")
        ELSE Ok(a[2])

\* look_or_substitute(lines, key, sub, ...); hasSub is `sub is not None`.
look_or_substitute(lines, key, hasSub, sub, no_spaces, quotes) ==
    LET i == FirstStartingWith(lines, key, 1)
    IN  IF i # 0 THEN preprocess(lines[i], no_spaces, quotes)
        ELSE IF ~hasSub THEN Raise("MissingRequiredField")
        ELSE Ok(sub)

\* `assert len(v.split(".")) == 3` and `assert len([digits]) == 3`
VersionOk(v) ==
    LET a == Split(v, ".")
    IN  Len(a) = 3 /\ \A i \in 1..3 : IsDigit(a[i])

\* The public dependency list: the DEPENDS_ON value split at its commas.  The
\* loop that strips "lib" assigns to its loop variable only.
PublicDeps(d) == IF d # <<>> THEN Split(Replace(d, <<" ">>, <<>>), ",") ELSE <<>>

\* The private dependency list, from the DEPENDS_ON_PRIV value dp and the
\* public list d as it is by then (a str when the DEPENDS_ON value was empty,
\* a list otherwise): `dp = d.replace(" ", ""); dp = d.split(",")`.
PrivateDeps(dp, d) ==
    IF dp = <<>> THEN Ok(<<>>)
    ELSE IF d # <<>> THEN Raise("AttributeError")
    ELSE Ok(Split(d, ","))

\* shared: no line starts with NO_SHARED
Shared(lines) == FirstStartingWith(lines, kNO_SHARED, 1) = 0

\* create_library_from_info_file(filename), on the lines of the file.
create_library_from_info_file(rawlines) ==
    LET lines == StripAll(rawlines)
        n == look_or_substitute(lines, kNAME, FALSE, <<>>, TRUE, FALSE)
        v == look_or_substitute(lines, kVERSION, TRUE, sDefaultVersion, TRUE, FALSE)
        desc == look_or_substitute(lines, kDESCRIPTION, TRUE, <<>>, FALSE, TRUE)
        d == look_or_substitute(lines, kDEPENDS_ON, TRUE, <<>>, FALSE, FALSE)
        dp == look_or_substitute(lines, kDEPENDS_ON_PRIV, TRUE, <<>>, FALSE, FALSE)
        cflags == look_or_substitute(lines, kCFLAGS, TRUE, <<>>, FALSE, FALSE)
    IN  IF n.exc # "None" THEN Raise(n.exc)
        ELSE IF v.exc # "None" THEN Raise(v.exc)
        ELSE IF desc.exc # "None" THEN Raise(desc.exc)
        ELSE IF d.exc # "None" THEN Raise(d.exc)
        ELSE IF ~VersionOk(v.val) THEN Raise("AssertionError")
        ELSE IF dp.exc # "None" THEN Raise(dp.exc)
        ELSE IF PrivateDeps(dp.val, d.val).exc # "None"
             THEN Raise(PrivateDeps(dp.val, d.val).exc)
        ELSE IF cflags.exc # "None" THEN Raise(cflags.exc)
        ELSE Ok([name |-> IF StartsWith(n.val, sLib) THEN n.val ELSE sLib \o n.val,
                 desc |-> desc.val,
                 version |-> v.val,
                 deps |-> PublicDeps(d.val),
                 deps_private |-> PrivateDeps(dp.val, d.val).val,
                 cflags |-> cflags.val,
                 shared |-> Shared(lines)])

\* ------------------------------------------------------------------------
\* Flag resolution
\* ------------------------------------------------------------------------
\* JoinDeps with r starting as " " instead of "".
RECURSIVE JoinDepsMut(_)
JoinDepsMut(deps) ==
    IF deps = <<>> THEN <<" ">>
    ELSE JoinDepsMut(SubSeq(deps, 1, Len(deps) - 1)) \o <<" ">> \o deps[Len(deps)]

\* `r = ""; for i in deps: r = r + " " + i`
RECURSIVE JoinDeps(_)
JoinDeps(deps) ==
    IF deps = <<>> THEN <<>>
    ELSE JoinDeps(SubSeq(deps, 1, Len(deps) - 1)) \o <<" ">> \o deps[Len(deps)]

\* What subprocess.run hands back: the exit status and the stdout attribute
\* (None unless the output was captured).
ToolResults ==
    { [returncode |-> rc, none |-> nn, text |-> IF nn THEN <<>> ELSE <<"-", "f">>] :
        rc \in {0, 1}, nn \in BOOLEAN }

\* get_libs(a), o the result of the run of pkg-config if it is invoked:
\* whether it was invoked, with what, and what is returned or raised.
get_libs(a, o) ==
    LET r == JoinDeps(a.depends)
    IN  IF r = <<>> THEN [called |-> FALSE, argv |-> <<>>, res |-> Ok(<<>>)]
        ELSE [called |-> TRUE, argv |-> <<"--libs", r>>,
              res |-> IF o.returncode # 0 THEN Raise("Exception")
                      ELSE IF o.none THEN Ok(<<>>)
                      ELSE Ok(o.text)]

\* get_cflags(a)
get_cflags(a, o) ==
    LET r == JoinDeps(a.depends)
    IN  IF r = <<>> THEN [called |-> FALSE, argv |-> <<>>, res |-> Ok(<<>>)]
        ELSE [called |-> TRUE, argv |-> <<"--cflags", r>>,
              res |-> IF o.returncode # 0 THEN Raise("Exception")
                      ELSE IF o.none THEN Ok(<<>>)
                      ELSE Ok(a.cflags \o <<" ">> \o o.text)]

\* collect_cflags(lib)
collect_cflags(lib, o) ==
    LET r == JoinDeps(lib.deps)
    IN  IF r = <<>> THEN [called |-> FALSE, argv |-> <<>>, res |-> Ok(<<>>)]
        ELSE [called |-> TRUE, argv |-> <<"--cflags", r>>,
              res |-> IF o.returncode # 0 THEN Raise("Exception")
                      ELSE IF o.none THEN Ok(<<>>)
                      ELSE Ok(<<" ">> \o o.text)]

\* ------------------------------------------------------------------------
\* The state of one run of a script
\* ------------------------------------------------------------------------
VARIABLES
    script,   \* the script that runs: "app", "lib" or "genpc"
    arg,      \* the flag of its command line
    file,     \* the lines of the descriptor file, as written
    fs,       \* the filesystem
    pc,       \* the position of the script
    desc,     \* the result of parsing the descriptor
    exc,      \* the exception that ended the run, "None" when none did
    out,      \* what the run printed
    calls,    \* the invocations of pkg-config, in order
    idx,      \* the loop index of the loop the script is in
    run,      \* the number of the run
    snaps     \* the filesystem at the start and after every finished run

vars == <<script, arg, file, fs, pc, desc, exc, out, calls, idx, run, snaps>>

NoDesc == Raise("NotParsed")

\* ------------------------------------------------------------------------
\* app.py --create-symlinks and lib.py --build_symlinks
\* ------------------------------------------------------------------------
\* Swallowed with `except FileNotFoundError` in the place of
\* `except FileExistsError`.
SwallowedMut(e) == e = "FileNotFoundError"

\* `except FileExistsError: pass`: the exceptions the loop body swallows.
Swallowed(e) == e = "FileExistsError"

\* The body of the try of the loop over a.symlinks, for the link target d
\* and the path p = path + sym.
symlink_entry(f, d, p) ==
    IF ~Exists(f, Dirname(p))
    THEN LET m == os_mkdir(f, Dirname(p))
         IN  IF m.exc # "None" THEN m ELSE os_symlink(m.fs, d, p)
    ELSE os_symlink(f, d, p)

\* `d = a.install_dir + "/" + a.name`
LinkTarget(a) == a.install_dir \o <<"/">> \o a.name

\* `path = SYSROOT + PREFIX + "/lib/" + lib.name + ".so"`
SoPath(lib) == SYSROOT \o PREFIX \o <<"/", "l", "i", "b", "/">> \o lib.name \o <<".", "s", "o">>

\* The try of --build_symlinks: both os.symlink calls in one try whose
\* `except Exception: pass` swallows whatever the first to fail raises.
build_symlinks(f, lib) ==
    LET path == SoPath(lib)
        a == Split(lib.version, ".")
        first == os_symlink(f, path, path \o <<".">> \o lib.version)
    IN  IF first.exc # "None" THEN first.fs
        ELSE os_symlink(first.fs, path, path \o <<".">> \o a[1]).fs

\* ------------------------------------------------------------------------
\* genpc.py
\* ------------------------------------------------------------------------
\* `n = l.name[3:]`
PcName(l) == SubSeq(l.name, 4, Len(l.name))

\* `path = SYSROOT + PREFIX + "/lib/pkgconfig/"`, and the path of the .pc file
PcDir == SYSROOT \o PREFIX \o <<"/", "l", "i", "b", "/", "p", "k", "g", "c", "o", "n", "f", "i", "g", "/">>
PcPath(l) == PcDir \o PcName(l) \o <<".", "p", "c">>

\* open(p, "w+"): the file is created, or truncated when it exists.
open_w(f, p) ==
    LET w == Walk(f, <<>>, Components(p), MaxFollow)
    IN  IF p = <<>> THEN [exc |-> "FileNotFoundError", fs |-> f, at |-> <<>>]
        ELSE IF w.st = "ok"
             THEN IF IsDirAt(f, w.path)
                  THEN [exc |-> "IsADirectoryError", fs |-> f, at |-> <<>>]
                  ELSE [exc |-> "None", fs |-> Put(f, w.path, File(<<>>)), at |-> w.path]
        ELSE IF w.st = "ENOENT" /\ w.last
             THEN [exc |-> "None", fs |-> Put(f, w.path, File(<<>>)), at |-> w.path]
        ELSE [exc |-> ExcOf(w.st), fs |-> f, at |-> <<>>]

\* What `pkg-config --libs <dep>` prints for a package it knows.
ToolLibs(dep) == <<"-", "l">> \o dep

\* `for i in l.deps: data = data + check_output(...).strip() + " "`
RECURSIVE LibsOfDeps(_)
LibsOfDeps(deps) ==
    IF deps = <<>> THEN <<>>
    ELSE ToolLibs(Head(deps)) \o <<" ">> \o LibsOfDeps(Tail(deps))

\* `for i in l.deps_private: data = data + "-l" + i + " "`
RECURSIVE PrivateFlags(_)
PrivateFlags(deps) ==
    IF deps = <<>> THEN <<>>
    ELSE <<"-", "l">> \o Head(deps) \o <<" ">> \o PrivateFlags(Tail(deps))

\* The text written to the .pc file, as its sequence of lines.
PcData(l) ==
    <<<<"p", "r", "e", "f", "i", "x", "=">> \o PREFIX,
      <<"e", "x", "e", "c", "_", "p", "r", "e", "f", "i", "x", "=", "$", "{", "p", "r", "e", "f", "i", "x", "}">>,
      <<"l", "i", "b", "d", "i", "r", "=">> \o PREFIX \o <<"/", "l", "i", "b">>,
      <<"i", "n", "c", "l", "u", "d", "e", "d", "i", "r", "=">> \o PREFIX \o <<"/", "i", "n", "c", "l", "u", "d", "e">>,
      <<>>,
      <<"N", "a", "m", "e", ":", " ">> \o PcName(l)>>
    \o (IF l.desc # <<>>
        THEN <<<<"D", "e", "s", "c", "r", "i", "p", "t", "i", "o", "n", ":", " ">> \o Replace(l.desc, <<"\"">>, <<>>)>>
        ELSE <<>>)
    \o <<<<"R", "e", "q", "u", "i", "r", "e", "s", ":">>,
         <<"R", "e", "q", "u", "i", "r", "e", "s", ".", "p", "r", "i", "v", "a", "t", "e", ":">>,
         <<"V", "e", "r", "s", "i", "o", "n", ":", " ">> \o l.version,
         <<"L", "i", "b", "s", ":", " ", "-", "L", "$", "{", "l", "i", "b", "d", "i", "r", "}", " ", "-", "l">> \o PcName(l) \o <<" ">> \o LibsOfDeps(l.deps),
         <<"L", "i", "b", "s", ".", "p", "r", "i", "v", "a", "t", "e", ":", " ">> \o PrivateFlags(l.deps_private),
         <<"C", "f", "l", "a", "g", "s", ":", " ", "-", "I", "$", "{", "i", "n", "c", "l", "u", "d", "e", "d", "i", "r", "}", " ">> \o l.cflags>>

\* ------------------------------------------------------------------------
\* The descriptor files and filesystems the runs start from
\* ------------------------------------------------------------------------
LName == Assign(kNAME, <<"f", "o", "o">>)
LNames == Assign(kNAME \o <<"S">>, <<"x">>)
LInstallDir == Assign(kINSTALL_DIR, <<"/", "b">>)
LDepends == Assign(kDEPENDS, <<"m", ",", " ", "n">>)
LDependsEmpty == kDEPENDS \o <<" ", "=", " ">>
LDependsOn == Assign(kDEPENDS_ON, <<"c">>)
LDependsOnEmpty == kDEPENDS_ON \o <<" ", "=", " ">>
LDependsOnPriv == Assign(kDEPENDS_ON_PRIV, <<"p", ",", " ", "q">>)
LCflagsEq == Assign(kCFLAGS, <<"-", "D", "=", "1">>)
LCflags == Assign(kCFLAGS, <<"-", "O">>)
LVersion == Assign(kVERSION, <<"1", ".", "2", ".", "3">>)
LVersionBad == Assign(kVERSION, <<"1", ".", "0">>)
LNoShared == kNO_SHARED
LSymlinksA == Assign(kSYMLINKS, <<"/", "x", "/", "l", ",", " ", "/", "m">>)
LSymlinksB == Assign(kSYMLINKS, <<"/", "x", "/", "y", "/", "l", ",", "/", "m">>)
LSymlinksC == Assign(kSYMLINKS, <<"/", "l", ",", "/", "l", "/", "k">>)

AppLines ==
    {LName, LNames, LInstallDir, LDepends, LDependsEmpty, LDependsOn,
     LCflagsEq, LCflags}
LibLines ==
    {LName, LNames, LVersion, LVersionBad, LDependsOn, LDependsOnEmpty,
     LDependsOnPriv, LNoShared, LCflagsEq}
SymLines == {LName, LInstallDir, LSymlinksA, LSymlinksB, LSymlinksC}

\* The files of at most MaxLines lines of a pool, no line written twice.
Files(pool) ==
    UNION { { f \in [1..n -> pool] : \A i, j \in 1..n : i # j => f[i] # f[j] } :
            n \in 0..MaxLines }

\* A filesystem with the directories ds, the links ls (path -> target) and
\* the files fl (path -> data); a directory is listed with its ancestors.
MkFs(ds, ls, fl) ==
    [q \in ds \cup DOMAIN ls \cup DOMAIN fl |->
        IF q \in ds THEN Dir
        ELSE IF q \in DOMAIN ls THEN Link(ls[q]) ELSE File(fl[q])]

NoEntries == [q \in {} |-> <<>>]

cS == <<"s">>
cP == <<"p">>
cB == <<"b">>
cX == <<"x">>
cUsr == <<"u", "s", "r">>
cBin == <<"b", "i", "n">>
cLib == <<"l", "i", "b">>
cPkgconfig == <<"p", "k", "g", "c", "o", "n", "f", "i", "g">>

\* The host's /usr/bin and the target root /s.
BaseDirs == {<<cUsr>>, <<cUsr, cBin>>, <<cS>>}

\* app.py printing flags: the declared and the default install directory
\* are, or are not, on the host and under the target root.
AppFs ==
    { MkFs(BaseDirs \cup host \cup sys \cup sysusr, NoEntries, NoEntries) :
        host \in {{}, {<<cB>>}},
        sys \in {{}, {<<cS, cB>>}},
        sysusr \in {{}, {<<cS, cUsr>>, <<cS, cUsr, cBin>>}} }

\* app.py --create-symlinks: the install directory /b is on the host; the
\* installed binary /b/foo, the directory /s/x, the link /s/x/l and a file
\* /s/m are there or not.
SymFs ==
    { MkFs(BaseDirs \cup {<<cB>>} \cup x,
           [q \in l |-> <<cB, <<"f", "o", "o">>>>],
           [q \in b \cup m |-> <<>>]) :
        x \in {{<<cS, cX>>}},
        l \in {{}, {<<cS, cX, <<"l">>>>}},
        b \in {{}, {<<cB, <<"f", "o", "o">>>>}},
        m \in {{}, {<<cS, <<"m">>>>}} }
    \cup
    { MkFs(BaseDirs \cup {<<cB>>}, NoEntries, [q \in b \cup m |-> <<>>]) :
        b \in {{}, {<<cB, <<"f", "o", "o">>>>}},
        m \in {{}, {<<cS, <<"m">>>>}} }

\* lib.py --build_symlinks: the library directory /s/p/lib is there or not,
\* and in it the versioned links of libfoo.so.
SoLinks == {<<"l", "i", "b", "f", "o", "o", ".", "s", "o", ".", "1", ".", "2", ".", "3">>, <<"l", "i", "b", "f", "o", "o", ".", "s", "o", ".", "1", ".", "0", ".", "0">>, <<"l", "i", "b", "f", "o", "o", ".", "s", "o", ".", "1">>}
LibFs ==
    { MkFs(BaseDirs \cup {<<cS, cP>>, <<cS, cP, cLib>>},
           [q \in { <<cS, cP, cLib, n>> : n \in ns } |-> <<cS, cP, cLib, <<"l", "i", "b", "f", "o", "o", ".", "s", "o">>>>],
           NoEntries) :
        ns \in SUBSET SoLinks }
    \cup {MkFs(BaseDirs, NoEntries, NoEntries)}

\* genpc.py: /s/p/lib, /s/p/lib/pkgconfig and an earlier foo.pc are there
\* or not.
OldPc == <<<<"N", "a", "m", "e", ":", " ", "o", "l", "d">>>>
PcFs ==
    { MkFs(BaseDirs, NoEntries, NoEntries),
      MkFs(BaseDirs \cup {<<cS, cP>>, <<cS, cP, cLib>>}, NoEntries, NoEntries),
      MkFs(BaseDirs \cup {<<cS, cP>>, <<cS, cP, cLib>>, <<cS, cP, cLib, cPkgconfig>>},
           NoEntries, NoEntries),
      MkFs(BaseDirs \cup {<<cS, cP>>, <<cS, cP, cLib>>, <<cS, cP, cLib, cPkgconfig>>},
           NoEntries,
           [q \in {<<cS, cP, cLib, cPkgconfig, <<"f", "o", "o", ".", "p", "c">>>>} |-> OldPc]) }

AppArgs == {"--libs", "--cflags", "--name", "--install-dir"}
LibArgs == {"--cflags", "--name"}

\* ------------------------------------------------------------------------
\* The runs
\* ------------------------------------------------------------------------
Start(s, a, f, fsys) ==
    /\ script = s
    /\ arg = a
    /\ file = f
    /\ fs = fsys
    /\ pc = "start"
    /\ desc = NoDesc
    /\ exc = "None"
    /\ out = <<>>
    /\ calls = <<>>
    /\ idx = 1
    /\ run = 1
    /\ snaps = <<[fs |-> fsys, exc |-> "None"]>>

Init ==
    \/ \E a \in AppArgs, f \in Files(AppLines), fsys \in AppFs :
          Start("app", a, f, fsys)
    \/ \E f \in Files(SymLines), fsys \in SymFs :
          Start("app", "--create-symlinks", f, fsys)
    \/ \E a \in LibArgs, f \in Files(LibLines) :
          Start("lib", a, f, MkFs(BaseDirs, NoEntries, NoEntries))
    \/ \E f \in Files(LibLines), fsys \in LibFs :
          Start("lib", "--build_symlinks", f, fsys)
    \/ \E f \in Files(LibLines), fsys \in PcFs :
          Start("genpc", "", f, fsys)

\* The run ends: with the exception e uncaught, or normally ("None").
Exit(e) == pc' = "exit" /\ exc' = e

\* app.py: `a = process_file(p.filename)`
AppParse ==
    /\ script = "app" /\ pc = "start"
    /\ desc' = process_file(file, fs)
    /\ IF desc'.exc = "None" THEN pc' = "main" /\ exc' = "None" ELSE Exit(desc'.exc)
    /\ UNCHANGED <<script, arg, file, fs, out, calls, idx, run, snaps>>

\* What a flag resolver did: the invocation recorded, the result printed or
\* the exception left uncaught.
Resolved(g) ==
    /\ calls' = IF g.called THEN Append(calls, g.argv) ELSE calls
    /\ out' = IF g.res.exc = "None" THEN Append(out, g.res.val) ELSE out
    /\ Exit(g.res.exc)

\* `if p.libs: print(get_libs(a))`
AppLibs ==
    /\ script = "app" /\ pc = "main" /\ arg = "--libs"
    /\ \E o \in ToolResults : Resolved(get_libs(desc.val, o))
    /\ UNCHANGED <<script, arg, file, fs, desc, idx, run, snaps>>

\* `if p.cflags: print(get_cflags(a))`
AppCflags ==
    /\ script = "app" /\ pc = "main" /\ arg = "--cflags"
    /\ \E o \in ToolResults : Resolved(get_cflags(desc.val, o))
    /\ UNCHANGED <<script, arg, file, fs, desc, idx, run, snaps>>

\* `if p.name: print(a.name)`
AppName ==
    /\ script = "app" /\ pc = "main" /\ arg = "--name"
    /\ out' = Append(out, desc.val.name)
    /\ Exit("None")
    /\ UNCHANGED <<script, arg, file, fs, desc, calls, idx, run, snaps>>

\* `if p.install_dir: print(a.install_dir)`
AppInstallDir ==
    /\ script = "app" /\ pc = "main" /\ arg = "--install-dir"
    /\ out' = Append(out, desc.val.install_dir)
    /\ Exit("None")
    /\ UNCHANGED <<script, arg, file, fs, desc, calls, idx, run, snaps>>

\* `if p.create_symlinks: if len(a.symlinks) != 0:` up to the loop ($SYSROOT
\* is set).
AppSymlinksBegin ==
    /\ script = "app" /\ pc = "main" /\ arg = "--create-symlinks"
    /\ idx' = 1
    /\ IF Len(desc.val.symlinks) # 0 THEN pc' = "loop" /\ exc' = exc ELSE Exit("None")
    /\ UNCHANGED <<script, arg, file, fs, desc, out, calls, run, snaps>>

\* One iteration of `for sym in a.symlinks`.
AppSymlinkEntry ==
    /\ script = "app" /\ pc = "loop"
    /\ LET a == desc.val
           r == symlink_entry(fs, LinkTarget(a), SYSROOT \o a.symlinks[idx])
       IN  /\ fs' = r.fs
           /\ idx' = idx + 1
           /\ IF r.exc # "None" /\ ~Swallowed(r.exc) THEN Exit(r.exc)
              ELSE IF idx < Len(a.symlinks) THEN pc' = "loop" /\ exc' = exc
              ELSE Exit("None")
    /\ UNCHANGED <<script, arg, file, desc, out, calls, run, snaps>>

\* The same command line is run again on the filesystem the run left.
AppRerun ==
    /\ script = "app" /\ pc = "exit" /\ arg = "--create-symlinks"
    /\ run < MaxRuns
    /\ run' = run + 1
    /\ snaps' = Append(snaps, [fs |-> fs, exc |-> exc])
    /\ pc' = "start"
    /\ desc' = NoDesc
    /\ exc' = "None"
    /\ idx' = 1
    /\ UNCHANGED <<script, arg, file, fs, out, calls>>

\* lib.py: `lib = create_library_from_info_file(ap.filename)`
LibParse ==
    /\ script = "lib" /\ pc = "start"
    /\ desc' = create_library_from_info_file(file)
    /\ IF desc'.exc = "None" THEN pc' = "main" /\ exc' = "None" ELSE Exit(desc'.exc)
    /\ UNCHANGED <<script, arg, file, fs, out, calls, idx, run, snaps>>

\* `if ap.build_symlinks:`
LibBuildSymlinks ==
    /\ script = "lib" /\ pc = "main" /\ arg = "--build_symlinks"
    /\ IF ~desc.val.shared
       THEN fs' = fs /\ out' = out
       ELSE /\ fs' = build_symlinks(fs, desc.val)
            /\ out' = Append(out, <<"B", "u", "i", "l", "d", "i", "n", "g", " ", "s", "y", "m", "l", "i", "n", "k", "s", " ", "t", "o", " ">> \o SoPath(desc.val))
    /\ Exit("None")
    /\ UNCHANGED <<script, arg, file, desc, calls, idx, run, snaps>>

\* `if ap.cflags: print(collect_cflags(lib))`
LibCflags ==
    /\ script = "lib" /\ pc = "main" /\ arg = "--cflags"
    /\ \E o \in ToolResults : Resolved(collect_cflags(desc.val, o))
    /\ UNCHANGED <<script, arg, file, fs, desc, idx, run, snaps>>

\* `if ap.name: print(lib.name)`
LibName ==
    /\ script = "lib" /\ pc = "main" /\ arg = "--name"
    /\ out' = Append(out, desc.val.name)
    /\ Exit("None")
    /\ UNCHANGED <<script, arg, file, fs, desc, calls, idx, run, snaps>>

\* genpc.py up to `f = open(path, "w+")`: the descriptor is parsed, the
\* pkgconfig directory made (any failure swallowed) and the file opened.
GenpcOpen ==
    /\ script = "genpc" /\ pc = "start"
    /\ desc' = create_library_from_info_file(file)
    /\ IF desc'.exc # "None" THEN fs' = fs /\ Exit(desc'.exc)
       ELSE LET o == open_w(os_mkdir(fs, PcDir).fs, PcPath(desc'.val))
            IN  /\ fs' = o.fs
                /\ IF o.exc # "None" THEN Exit(o.exc)
                   ELSE pc' = "deps" /\ exc' = "None"
    /\ idx' = 1
    /\ UNCHANGED <<script, arg, file, out, calls, run, snaps>>

\* One iteration of `for i in l.deps`: check_output raises when pkg-config
\* exits with a non-zero status.
GenpcDep ==
    /\ script = "genpc" /\ pc = "deps" /\ idx <= Len(desc.val.deps)
    /\ calls' = Append(calls, <<"--libs", desc.val.deps[idx]>>)
    /\ idx' = idx + 1
    /\ \E rc \in {0, 1} :
          IF rc # 0 THEN Exit("CalledProcessError") ELSE pc' = "deps" /\ exc' = exc
    /\ UNCHANGED <<script, arg, file, fs, desc, out, run, snaps>>

\* `f.write(data); f.close()`
GenpcWrite ==
    /\ script = "genpc" /\ pc = "deps" /\ idx > Len(desc.val.deps)
    /\ fs' = Put(fs, Walk(fs, <<>>, Components(PcPath(desc.val)), MaxFollow).path,
                 File(PcData(desc.val)))
    /\ Exit("None")
    /\ UNCHANGED <<script, arg, file, desc, out, calls, idx, run, snaps>>

Next ==
    \/ AppParse
    \/ AppLibs
    \/ AppCflags
    \/ AppName
    \/ AppInstallDir
    \/ AppSymlinksBegin
    \/ AppSymlinkEntry
    \/ AppRerun
    \/ LibParse
    \/ LibBuildSymlinks
    \/ LibCflags
    \/ LibName
    \/ GenpcOpen
    \/ GenpcDep
    \/ GenpcWrite

Spec == Init /\ [][Next]_vars

\* ------------------------------------------------------------------------
\* The properties
\* ------------------------------------------------------------------------
\* The key and the value of a descriptor line as the file format defines
\* them: the text before, and all of the text after, the first "=".
KeyOf(line) ==
    LET i == Find(line, "=", 1)
    IN  IF i = 0 THEN Strip(line) ELSE Strip(SubSeq(line, 1, i - 1))

ValueOf(line) ==
    LET i == Find(line, "=", 1)
    IN  IF i = 0 THEN <<>> ELSE Strip(SubSeq(line, i + 1, Len(line)))

\* The first line of the file whose key is exactly key, 0 when none is.
RECURSIVE FirstWithKey(_, _, _)
FirstWithKey(lines, key, i) ==
    IF i > Len(lines) THEN 0
    ELSE IF KeyOf(lines[i]) = key THEN i ELSE FirstWithKey(lines, key, i + 1)

\* The value the file gives key: that of the first line with this key, the
\* default when no line has it.
FieldOf(lines, key, default) ==
    IF FirstWithKey(lines, key, 1) = 0 THEN default
    ELSE ValueOf(lines[FirstWithKey(lines, key, 1)])

\* The names of a comma-separated field.
NamesOf(v) == IF v = <<>> THEN <<>> ELSE Split(Replace(v, <<" ">>, <<>>), ",")

\* The keys the app parser and the library parser look for.
AppKeys ==
    {kNAME, kINSTALL_DIR, kDEPENDS, kADDITIONAL_TARGETS, kSYMLINKS, kCFLAGS, kLDFLAGS}
LibKeys == {kNAME, kVERSION, kDESCRIPTION, kDEPENDS_ON, kDEPENDS_ON_PRIV, kCFLAGS}

\* The file names itself, and for every key the running script looks for,
\* the first line that begins with the key is the first line that has it.
PlainKeys ==
    /\ FirstWithKey(file, kNAME, 1) # 0
    /\ \A k \in (IF script = "app" THEN AppKeys ELSE LibKeys) :
          FirstStartingWith(StripAll(file), k, 1) = FirstWithKey(file, k, 1)

\* The descriptor has been parsed, with or without success.
Parsed == pc # "start"
ParsedOk == Parsed /\ desc.exc = "None"

SymlinkRun == script = "app" /\ arg = "--create-symlinks"

\* C1: parsing a descriptor file in which no line's key is NAME fails with
\* the missing-required-field error, in the app parser and in the library
\* parser.
C1_MissingNameFails ==
    (Parsed /\ FirstWithKey(file, kNAME, 1) = 0)
        => desc.exc = "MissingRequiredField"

\* C2: the value of a key is all of the text after the first "=" of the
\* first line with that key: the parsed cflags are the whole CFLAGS value,
\* also when it contains "=".
C2_ValueAfterFirstEq ==
    (ParsedOk /\ PlainKeys /\ FirstWithKey(file, kCFLAGS, 1) # 0)
        => desc.val.cflags = FieldOf(file, kCFLAGS, <<>>)

\* C3: get_libs and get_cflags of an app and collect_cflags of a library
\* whose dependency list is empty return "" and never invoke pkg-config.
C3_EmptyDepsNoTool ==
    (/\ pc = "exit"
     /\ desc.exc = "None"
     /\ \/ script = "app" /\ arg \in {"--libs", "--cflags"} /\ desc.val.depends = <<>>
        \/ script = "lib" /\ arg = "--cflags" /\ desc.val.deps = <<>>)
        => calls = <<>> /\ exc = "None" /\ out = << <<>> >>

\* An app with local cflags and no dependency has had its cflags resolved.
C3_Witness ==
    /\ pc = "exit" /\ script = "app" /\ arg = "--cflags"
    /\ desc.exc = "None"
    /\ desc.val.depends = <<>>
    /\ desc.val.cflags # <<>>
    /\ PlainKeys

\* C4: a run of --create-symlinks that follows a run with the same
\* descriptor leaves the filesystem as the earlier run left it, and ends
\* without error when the earlier run did.
C4_SecondRunIdempotent ==
    (SymlinkRun /\ pc = "exit" /\ run >= 2) =>
        /\ fs = snaps[run].fs
        /\ snaps[run].exc = "None" => exc = "None"

\* The first run made both links of a two-entry list, the second run found
\* them there.
C4_Witness ==
    /\ SymlinkRun /\ pc = "exit" /\ run = 2
    /\ snaps[2].exc = "None" /\ exc = "None"
    /\ Len(desc.val.symlinks) = 2
    /\ \A j \in 1..2 :
          LET c == Components(SYSROOT \o desc.val.symlinks[j])
          IN  /\ c \notin DOMAIN snaps[1].fs
              /\ c \in DOMAIN fs
              /\ fs[c].kind = "link"

\* The Libs.private line of the emitted file.
LibsPrivateLine(data) ==
    { data[i] : i \in { k \in 1..Len(data) : StartsWith(data[k], <<"L", "i", "b", "s", ".", "p", "r", "i", "v", "a", "t", "e", ":">>) } }

\* C5: the private dependency list of the parsed library is the list of the
\* names of DEPENDS_ON_PRIV, parsing does not break on any combination of
\* DEPENDS_ON and DEPENDS_ON_PRIV, and the Libs.private line of the emitted
\* file has one -l<name> for each of these names, in order.
C5_PrivateFlags ==
    (script \in {"lib", "genpc"} /\ Parsed /\ PlainKeys) =>
        /\ desc.exc # "AttributeError"
        /\ desc.exc = "None" =>
              desc.val.deps_private = NamesOf(FieldOf(file, kDEPENDS_ON_PRIV, <<>>))
        /\ (script = "genpc" /\ pc = "exit" /\ exc = "None") =>
              LibsPrivateLine(fs[Components(PcPath(desc.val))].data)
                  = {<<"L", "i", "b", "s", ".", "p", "r", "i", "v", "a", "t", "e", ":", " ">>
                       \o PrivateFlags(NamesOf(FieldOf(file, kDEPENDS_ON_PRIV, <<>>)))}

\* C6: when pkg-config fails for a public dependency the emission leaves no
\* new .pc file, and a .pc file that was there keeps its content.
C6_NoPartialOutput ==
    (script = "genpc" /\ pc = "exit" /\ exc = "CalledProcessError" /\ PlainKeys) =>
        LET c == Components(PcPath(desc.val))
        IN  /\ c \in DOMAIN fs <=> c \in DOMAIN snaps[1].fs
            /\ c \in DOMAIN fs => fs[c] = snaps[1].fs[c]

\* C7: after an entry of the symlink list has failed with an error other
\* than "already exists", no later entry is left whose creation can succeed.
C7_LaterEntriesProcessed ==
    (SymlinkRun /\ pc = "exit" /\ desc.exc = "None" /\ exc # "None") =>
        \A j \in idx..Len(desc.val.symlinks) :
            symlink_entry(fs, LinkTarget(desc.val),
                          SYSROOT \o desc.val.symlinks[j]).exc # "None"

\* C8: --build_symlinks never fails; for a shared library it leaves neither
\* versioned link creatable (each exists or cannot be created), for a
\* NO_SHARED library it creates nothing.
C8_BothLinksAttempted ==
    (script = "lib" /\ arg = "--build_symlinks" /\ pc = "exit" /\ desc.exc = "None") =>
        /\ exc = "None"
        /\ IF desc.val.shared
           THEN \A v \in {desc.val.version, Split(desc.val.version, ".")[1]} :
                   os_symlink(fs, SoPath(desc.val),
                              SoPath(desc.val) \o <<".">> \o v).exc # "None"
           ELSE fs = snaps[1].fs

\* C9: an app descriptor parses only when its install directory exists under
\* the target root, at $SYSROOT followed by the install directory, and the
\* install directory of a parsed descriptor ends with "/".
C9_InstallDirUnderSysroot ==
    (script = "app" /\ ParsedOk /\ PlainKeys) =>
        /\ Exists(fs, SYSROOT \o desc.val.install_dir)
        /\ desc.val.install_dir[Len(desc.val.install_dir)] = "/"

\* C10: a field is filled only from a line whose key is exactly the field's
\* key: the public dependencies of a library from DEPENDS_ON, the
\* dependencies of an app from DEPENDS, the name from NAME.
C10_ExactKey ==
    ParsedOk =>
        /\ FirstWithKey(file, kNAME, 1) # 0
        /\ script = "app" =>
              desc.val.depends = NamesOf(FieldOf(file, kDEPENDS, <<>>))
        /\ script \in {"lib", "genpc"} =>
              desc.val.deps = NamesOf(FieldOf(file, kDEPENDS_ON, <<>>))

====
